---- MODULE Spec2Model ----
(***************************************************************************)
(* Model of extract_and_chunk.py: extract_text (MIME dispatch over the     *)
(* parsing libraries), chunk_text (sliding window with overlap) and the    *)
(* command-line entry point that runs extract, chunk, print.               *)
(*                                                                         *)
(* Python strings are TLA+ strings; a Python str index i (0-based) is the  *)
(* TLA+ position i + 1.                                                    *)
(***************************************************************************)
EXTENDS Integers, Sequences, FiniteSets, TLC

VARIABLES
    argv,        \* sys.argv of the run (program name first)
    fs,          \* what the file at file_path holds and how the libraries react
    file_path,   \* main: sys.argv[1]
    mime_type,   \* main: sys.argv[2]
    raw_text,    \* main: the value returned by extract_text, NoText before
    calls,       \* the library / filesystem entry points extract_text has called
    error,       \* message of the uncaught exception, NoError if none
    text,        \* chunk_text: parameter text
    chunk_size,  \* chunk_text: parameter chunk_size
    overlap,     \* chunk_text: parameter overlap
    chunks,      \* chunk_text: local chunks
    start,       \* chunk_text: local start
    index,       \* chunk_text: local index
    windows,     \* history: start, end and text[start:end] of every iteration
    stdout,      \* the strings written to standard output, in order
    pc           \* position of the program

vars == <<argv, fs, file_path, mime_type, raw_text, calls, error, text,
          chunk_size, overlap, chunks, start, index, windows, stdout, pc>>

mainVars == <<argv, fs, file_path, mime_type, raw_text, calls, error, stdout>>
chunkVars == <<text, chunk_size, overlap, chunks, start, index, windows>>

----------------------------------------------------------------------------
(* Bounds of the model *)

\* longest text enumerated exhaustively over Alphabet
MaxLen == 4
\* chunk_size and overlap range over -MaxParam..MaxParam for the small texts
MaxParam == 3
\* long texts (default parameters) span up to MaxSteps full steps of 900
MaxSteps == 2
\* most PDF pages of a modelled document
MaxPages == 2

(* Program constants *)

DefaultChunkSize == 1000
DefaultOverlap == 100

\* iterations after which a loop that has not ended is cut off
MaxIter == MaxLen + MaxSteps + 3

----------------------------------------------------------------------------
(* Python str primitives *)

Min(a, b) == IF a < b THEN a ELSE b
Max(a, b) == IF a > b THEN a ELSE b

\* the character at 0-based index i
CharAt(s, i) == SubSeq(s, i + 1, i + 1)

\* str.isspace for one character (ASCII whitespace)
Whitespace == {" ", "\t", "\n", "\r", "\f"}
IsSpace(c) == c \in Whitespace

\* normalisation of one slice bound: negative counts from the end, then clamp
SliceBound(i, n) == IF i < 0 THEN Max(i + n, 0) ELSE Min(i, n)

\* s[lo:hi] with Python's slice semantics
Slice(s, lo, hi) ==
    LET n == Len(s)
        a == SliceBound(lo, n)
        b == SliceBound(hi, n)
    IN  IF a >= b THEN "" ELSE SubSeq(s, a + 1, b)

\* the 0-based index of the first character of s that is not whitespace,
\* len(s) when there is none: where the scan from the left stops
LeftScan(s) ==
    CHOOSE i \in 0..Len(s) :
        /\ i = Len(s) \/ ~IsSpace(CharAt(s, i))
        /\ \A q \in 0..(i - 1) : IsSpace(CharAt(s, q))

\* where the scan from the right stops, never going below i: one past the
\* last character of s that is not whitespace
RightScan(s, i) ==
    CHOOSE j \in i..Len(s) :
        /\ j = i \/ ~IsSpace(CharAt(s, j - 1))
        /\ \A q \in j..(Len(s) - 1) : IsSpace(CharAt(s, q))

\* a plausible slip: only the left end is trimmed
Strip_LeftOnly(s) == SubSeq(s, LeftScan(s) + 1, Len(s))

\* str.strip(): scan whitespace from the left, then from the right
Strip(s) == SubSeq(s, LeftScan(s) + 1, RightScan(s, LeftScan(s)))

----------------------------------------------------------------------------
(* Inputs *)

Alphabet == {"a", "b", " "}

\* all strings over Alphabet of length n
RECURSIVE StringsOfLen(_)
StringsOfLen(n) ==
    IF n = 0 THEN {""}
    ELSE {s \o c : s \in StringsOfLen(n - 1), c \in Alphabet}

SmallTexts == UNION {StringsOfLen(n) : n \in 0..MaxLen}

\* p repeated n times
RECURSIVE Rep(_, _)
Rep(p, n) ==
    IF n = 0 THEN ""
    ELSE LET h == Rep(p, n \div 2)
         IN  IF n % 2 = 0 THEN h \o h ELSE h \o h \o p

\* the string of length n that repeats p
Periodic(p, n) == SubSeq(Rep(p, (n \div Len(p)) + 1), 1, n)

LongPatterns == {"a", " ", "ab ", " a\n b  "}

\* lengths around the multiples of the default step and of the default window
LongLens ==
    {k * (DefaultChunkSize - DefaultOverlap) + d :
        k \in 1..MaxSteps, d \in {-1, 0, 1, 50, 99, 100, 101}}

LongTexts == {Periodic(p, n) : p \in LongPatterns, n \in LongLens}

Params == (0 - MaxParam)..MaxParam

\* an optional string: None, or Some(s)
None == [some |-> FALSE, val |-> ""]
Some(s) == [some |-> TRUE, val |-> s]

NoText == None
NoError == ""
NoFile == [exists |-> FALSE, well_formed |-> FALSE, content |-> "", pages |-> <<>>]

----------------------------------------------------------------------------
(* chunk_text *)

\* a plausible slip: the loop also runs when start has reached the end
LoopCond_Inclusive(s, t) == s <= Len(t)

\* while start < len(text)
LoopCond(s, t) == s < Len(t)

\* a plausible slip: the window is one character short
WindowEnd_Short(s, size) == s + size - 1

\* end = start + chunk_size
WindowEnd(s, size) == s + size

\* a plausible slip: the overlap is not subtracted
NextStart_NoOverlap(end, ov) == end

\* start = end - overlap
NextStart(end, ov) == end - ov

\* a plausible slip: the counter is not advanced by one
NextIndex_Skip(i) == i + 2

\* index += 1
NextIndex(i) == i + 1

\* one execution of the loop body
ChunkIter ==
    /\ pc = "loop"
    /\ LoopCond(start, text)
    /\ index < MaxIter
    /\ LET end == WindowEnd(start, chunk_size)
           chunk == Strip(Slice(text, start, end))
       IN  /\ chunks' = Append(chunks, [index |-> index, content |-> chunk])
           /\ windows' = Append(windows, [start |-> start, end |-> end,
                                          slice |-> Slice(text, start, end)])
           /\ start' = NextStart(end, overlap)
           /\ index' = NextIndex(index)
    /\ UNCHANGED <<text, chunk_size, overlap, pc>>
    /\ UNCHANGED mainVars

\* the loop condition is false: return chunks
ChunkReturn ==
    /\ pc = "loop"
    /\ ~LoopCond(start, text)
    /\ pc' = "returned"
    /\ UNCHANGED chunkVars
    /\ UNCHANGED mainVars

\* chunk_text is called with arguments t, size, ov: the locals are set up
ChunkEntry(t, size, ov) ==
    /\ text' = t
    /\ chunk_size' = size
    /\ overlap' = ov
    /\ chunks' = <<>>
    /\ start' = 0
    /\ index' = 0
    /\ windows' = <<>>
    /\ pc' = "loop"

\* chunk_text called on its own, with any arguments or with the defaults
ChunkCall ==
    /\ pc = "call"
    /\ \/ \E t \in SmallTexts, size \in Params, ov \in Params :
              ChunkEntry(t, size, ov)
       \/ \E t \in SmallTexts \cup LongTexts :
              ChunkEntry(t, DefaultChunkSize, DefaultOverlap)
    /\ UNCHANGED mainVars

\* no call of chunk_text has been made yet
NoCall ==
    /\ text = ""
    /\ chunk_size = DefaultChunkSize
    /\ overlap = DefaultOverlap
    /\ chunks = <<>>
    /\ start = 0
    /\ index = 0
    /\ windows = <<>>

InitChunk ==
    /\ argv = <<>>
    /\ fs = NoFile
    /\ file_path = ""
    /\ mime_type = ""
    /\ raw_text = NoText
    /\ calls = <<>>
    /\ error = NoError
    /\ stdout = <<>>
    /\ pc = "call"
    /\ NoCall

NextChunk == ChunkCall \/ ChunkIter \/ ChunkReturn

SpecChunk == InitChunk /\ [][NextChunk]_vars

\* the loop is a sequential program: it keeps running while it can
SpecChunkLive == SpecChunk /\ WF_vars(NextChunk)

----------------------------------------------------------------------------
(* extract_text *)

MimePdf == "application/pdf"
MimeDocx == "application/vnd.openxmlformats-officedocument.wordprocessingml.document"
MimeDoc == "application/msword"
TextPrefix == "text/"

\* the MIME type strings a run may be given
MimeTypes ==
    {MimePdf, MimeDocx, MimeDoc, "text/plain", "text/html", "text/", "text",
     "application/unknown", "application/text/plain", "Application/PDF",
     "application/pdf ", "image/png", ""}

\* what page.extract_text() may return for one page
PageTexts == {None, Some(""), Some("Hello"), Some("World")}

\* all page lists of length n
RECURSIVE PagesOfLen(_)
PagesOfLen(n) ==
    IF n = 0 THEN {<<>>}
    ELSE {Append(ps, p) : ps \in PagesOfLen(n - 1), p \in PageTexts}

PageLists == UNION {PagesOfLen(n) : n \in 0..MaxPages}

\* decoded contents of the file (text files and Word documents)
FileContents == {"", " ab \n", Periodic(" a\n b  ", 1850)}

\* the file at file_path: absent, or present and either well formed for the
\* library that reads it or not
Files ==
    {NoFile} \cup
    [exists : {TRUE}, well_formed : BOOLEAN, content : FileContents,
     pages : PageLists]

\* text += page_text + "\n" for every page whose text is truthy
RECURSIVE PdfText(_)
PdfText(pages) ==
    IF Len(pages) = 0 THEN ""
    ELSE LET page_text == pages[Len(pages)]
             before == PdfText(SubSeq(pages, 1, Len(pages) - 1))
         IN  IF page_text.some /\ page_text.val # ""
             THEN before \o page_text.val \o "\n"
             ELSE before

Return(c, value) ==
    [raised |-> FALSE, value |-> value, message |-> NoError, calls |-> c]
Raise(c, message) ==
    [raised |-> TRUE, value |-> "", message |-> message, calls |-> c]

\* the outcome of a library or filesystem read of file f from entry point c
ReadFile(c, f, value) ==
    IF ~f.exists THEN Raise(<<c>>, "FileNotFoundError")
    ELSE IF ~f.well_formed THEN Raise(<<c>>, "Error raised by " \o c)
    ELSE Return(<<c>>, value)

\* a plausible slip: the prefix is looked for anywhere in the string
StartsWith_Anywhere(s, prefix) ==
    \E i \in 0..Len(s) :
        i + Len(prefix) <= Len(s) /\ SubSeq(s, i + 1, i + Len(prefix)) = prefix

\* str.startswith
StartsWith(s, prefix) ==
    Len(s) >= Len(prefix) /\ SubSeq(s, 1, Len(prefix)) = prefix

\* extract_text(file_path, mime_type) on file f: the value returned or the
\* exception raised, and the entry points called on the way
extract_text(f, mime) ==
    IF mime = MimePdf
    THEN ReadFile("pdfplumber.open", f, PdfText(f.pages))
    ELSE IF mime \in {MimeDocx, MimeDoc}
    THEN ReadFile("docx2txt.process", f, f.content)
    ELSE IF StartsWith(mime, TextPrefix)
    THEN ReadFile("open", f, f.content)
    ELSE Raise(<<>>, "Unsupported file type: " \o mime)

----------------------------------------------------------------------------
(* json.dumps *)

\* one character inside a JSON string literal
JsonEscapeChar(c) ==
    CASE c = "\"" -> "\\\""
      [] c = "\\" -> "\\\\"
      [] c = "\n" -> "\\n"
      [] c = "\r" -> "\\r"
      [] c = "\t" -> "\\t"
      [] c = "\f" -> "\\f"
      [] OTHER -> c

RECURSIVE JsonEscape(_)
JsonEscape(s) ==
    IF Len(s) = 0 THEN ""
    ELSE IF Len(s) = 1 THEN JsonEscapeChar(s)
    ELSE JsonEscape(SubSeq(s, 1, Len(s) \div 2))
            \o JsonEscape(SubSeq(s, (Len(s) \div 2) + 1, Len(s)))

JsonString(s) == "\"" \o JsonEscape(s) \o "\""

JsonChunk(c) ==
    "{\"index\": " \o ToString(c.index) \o ", \"content\": "
        \o JsonString(c.content) \o "}"

RECURSIVE JsonList(_)
JsonList(cs) ==
    IF Len(cs) = 0 THEN ""
    ELSE IF Len(cs) = 1 THEN JsonChunk(cs[1])
    ELSE JsonList(SubSeq(cs, 1, Len(cs) - 1)) \o ", " \o JsonChunk(cs[Len(cs)])

\* json.dumps({"text": t, "chunks": cs})
JsonDumps(t, cs) ==
    "{\"text\": " \o JsonString(t) \o ", \"chunks\": [" \o JsonList(cs) \o "]}"

----------------------------------------------------------------------------
(* the entry point *)

IndexError == "IndexError: list index out of range"

Argvs ==
    {<<"prog">>, <<"prog", "doc">>}
        \cup {<<"prog", "doc", m>> : m \in MimeTypes}
        \cup {<<"prog", "doc", "text/plain", "extra">>}

\* file_path = sys.argv[1]; mime_type = sys.argv[2]
MainArgs ==
    /\ pc = "main"
    /\ file_path' = IF Len(argv) >= 2 THEN argv[2] ELSE file_path
    /\ IF Len(argv) >= 3
       THEN /\ mime_type' = argv[3]
            /\ pc' = "extract"
            /\ error' = error
       ELSE /\ mime_type' = mime_type
            /\ pc' = "failed"
            /\ error' = IndexError
    /\ UNCHANGED <<argv, fs, raw_text, calls, stdout>>
    /\ UNCHANGED chunkVars

\* a plausible slip: a failed extraction is swallowed and the run goes on
MainExtract_Swallow ==
    /\ pc = "extract"
    /\ LET r == extract_text(fs, mime_type)
       IN  /\ calls' = r.calls
           /\ raw_text' = Some(r.value)
           /\ error' = r.message
           /\ pc' = "chunk"
    /\ UNCHANGED <<argv, fs, file_path, mime_type, stdout>>
    /\ UNCHANGED chunkVars

\* raw_text = extract_text(file_path, mime_type); an exception ends the run
MainExtract ==
    /\ pc = "extract"
    /\ LET r == extract_text(fs, mime_type)
       IN  /\ calls' = r.calls
           /\ IF r.raised
              THEN /\ error' = r.message
                   /\ raw_text' = raw_text
                   /\ pc' = "failed"
              ELSE /\ error' = error
                   /\ raw_text' = Some(r.value)
                   /\ pc' = "chunk"
    /\ UNCHANGED <<argv, fs, file_path, mime_type, stdout>>
    /\ UNCHANGED chunkVars

\* chunks = chunk_text(raw_text): the call, with the default parameters
MainChunk ==
    /\ pc = "chunk"
    /\ ChunkEntry(raw_text.val, DefaultChunkSize, DefaultOverlap)
    /\ UNCHANGED mainVars

\* print(json.dumps({"text": raw_text, "chunks": chunks}))
MainPrint ==
    /\ pc = "returned"
    /\ stdout' = Append(stdout, JsonDumps(raw_text.val, chunks) \o "\n")
    /\ pc' = "done"
    /\ UNCHANGED <<argv, fs, file_path, mime_type, raw_text, calls, error>>
    /\ UNCHANGED chunkVars

Init ==
    /\ argv \in Argvs
    /\ fs \in Files
    /\ file_path = ""
    /\ mime_type = ""
    /\ raw_text = NoText
    /\ calls = <<>>
    /\ error = NoError
    /\ stdout = <<>>
    /\ pc = "main"
    /\ NoCall

Next ==
    \/ MainArgs
    \/ MainExtract
    \/ MainChunk
    \/ ChunkIter
    \/ ChunkReturn
    \/ MainPrint

Spec == Init /\ [][Next]_vars

----------------------------------------------------------------------------
(* Properties of chunk_text *)

Step == chunk_size - overlap
IsDefault == chunk_size = DefaultChunkSize /\ overlap = DefaultOverlap
Returned == pc \in {"returned", "done"}

CeilDiv(n, d) == (n + d - 1) \div d

\* the characters of t at 0-based positions a .. b - 1, for 0 <= a
Substring(t, a, b) == IF b <= a THEN "" ELSE SubSeq(t, a + 1, Min(b, Len(t)))

IsSubstringOf(c, t) ==
    \E p \in 0..Len(t) : p + Len(c) <= Len(t) /\ SubSeq(t, p + 1, p + Len(c)) = c

Trimmed(c) ==
    c = "" \/ (~IsSpace(CharAt(c, 0)) /\ ~IsSpace(CharAt(c, Len(c) - 1)))

\* s without its first k characters (all of them when it has fewer)
DropFirst(s, k) == SubSeq(s, Min(k, Len(s)) + 1, Len(s))

\* the last k characters of s
Suffix(s, k) == SubSeq(s, Len(s) - k + 1, Len(s))

\* C1: with a positive step chunk_text returns ceil(len(T) / (chunk_size -
\* overlap)) chunks for a nonempty text and the empty list for the empty text.
C1_ChunkCount ==
    (Returned /\ Step > 0) =>
        Len(chunks) = IF Len(text) > 0 THEN CeilDiv(Len(text), Step) ELSE 0

C1_Witness ==
    /\ pc = "returned" /\ Step > 1 /\ ~IsDefault
    /\ Len(text) % Step # 0
    /\ Len(chunks) >= 2

\* C2: chunk_text terminates iff the text is empty or the step is positive.
\* With a positive step every iteration moves start forward by exactly the
\* step; with a step of zero or less and a nonempty text the loop condition
\* stays true and the function never returns.
C2_Termination ==
    /\ [](((Len(text) = 0 \/ Step > 0) /\ pc = "loop") => <>(pc = "returned"))
    /\ []((pc # "call" /\ Len(text) > 0 /\ Step <= 0) =>
            (pc = "loop" /\ start < Len(text)))
    /\ [][index' # index => (start < Len(text) /\ start' = start + Step)]_vars

C2_Witness ==
    /\ pc = "loop" /\ Step <= 0 /\ Len(text) > 0
    /\ index >= 3 /\ start < 0

\* C3: at every point the chunk at list position k (0-based) has index k, and
\* the counter index equals the number of chunks emitted so far.
C3_IndexContiguous ==
    /\ index = Len(chunks)
    /\ \A k \in 1..Len(chunks) : chunks[k].index = k - 1

C3_Witness == pc = "loop" /\ Len(chunks) >= 3 /\ start < Len(text)

\* the content chunk i (0-based) must have according to C4
C4_ChunkOk(i) ==
    LET a == i * Step
        w == Substring(text, a, Min(a + chunk_size, Len(text)))
        c == chunks[i + 1].content
    IN  /\ c = Strip(w)
        /\ Len(c) <= chunk_size
        /\ IsSubstringOf(c, text)
        /\ Trimmed(c)
        /\ \E l \in 0..Len(w) : \E r \in 0..Len(w) :
              /\ l + Len(c) + r = Len(w)
              /\ SubSeq(w, l + 1, l + Len(c)) = c
              /\ \A q \in 0..(Len(w) - 1) :
                    (q < l \/ q >= l + Len(c)) => IsSpace(CharAt(w, q))

\* C4 as claimed: for every positive step the content of chunk i is the trim
\* of T[i*step : min(i*step + chunk_size, len(T))], a contiguous substring of
\* T no longer than chunk_size, without leading or trailing whitespace.
C4_Original ==
    Step > 0 => \A i \in 0..(Len(chunks) - 1) : C4_ChunkOk(i)

\* C4 amended: the same for every positive step and chunk_size >= 0; an
\* all-whitespace window is emitted with empty content.
C4_Content ==
    (Step > 0 /\ chunk_size >= 0) =>
        /\ \A i \in 0..(Len(chunks) - 1) : C4_ChunkOk(i)
        /\ Returned => Len(chunks) = CeilDiv(Len(text), Step)

C4_Witness ==
    /\ pc = "returned" /\ Step > 0 /\ chunk_size >= 0
    /\ Len(chunks) >= 2
    /\ \E i \in 1..Len(chunks) :
          chunks[i].content = "" /\ Len(windows[i].slice) > 0
    /\ windows[Len(windows)].end > Len(text)

\* the windows in order, each after the first without its first ov characters
RECURSIVE JoinWindows(_, _)
JoinWindows(ws, ov) ==
    IF Len(ws) = 0 THEN ""
    ELSE IF Len(ws) = 1 THEN ws[1].slice
    ELSE JoinWindows(SubSeq(ws, 1, Len(ws) - 1), ov)
            \o DropFirst(ws[Len(ws)].slice, ov)

\* C5: with the default parameters the untrimmed windows, each after the
\* first without its first overlap characters, concatenate to T; every
\* position of T lies in a window; each content is the trim of its window.
C5_Reconstruct ==
    (pc = "returned" /\ IsDefault) =>
        /\ Len(windows) = Len(chunks)
        /\ \A i \in 1..Len(windows) :
              /\ windows[i].slice =
                    Substring(text, windows[i].start, windows[i].end)
              /\ chunks[i].content = Strip(windows[i].slice)
        /\ JoinWindows(windows, overlap) = text
        /\ \A p \in 0..(Len(text) - 1) : \E i \in 1..Len(windows) :
              windows[i].start <= p /\ p < windows[i].end

C5_Witness ==
    /\ pc = "returned" /\ IsDefault
    /\ Len(windows) >= 3
    /\ Len(windows[Len(windows)].slice) < overlap
    /\ \E i \in 1..Len(chunks) : chunks[i].content # windows[i].slice

\* the text of the worked example
Example1800 == Rep("a", 1800)

\* C6 as claimed: 1800 characters 'a' give 3 chunks, the third covering
\* [1700:1800].
C6_Original ==
    (pc = "returned" /\ IsDefault /\ text = Example1800) =>
        /\ Len(chunks) = 3
        /\ chunks[3] = [index |-> 2, content |-> Substring(text, 1700, 1800)]

\* C6 amended: 1800 characters 'a' give 2 chunks: index 0 covers [0:1000] and
\* index 1 covers [900:1900] clipped to [900:1800].
C6_Example ==
    (pc = "returned" /\ IsDefault /\ text = Example1800) =>
        /\ Len(chunks) = 2
        /\ chunks[1] = [index |-> 0, content |-> Substring(text, 0, 1000)]
        /\ chunks[2] = [index |-> 1, content |-> Substring(text, 900, 1800)]
        /\ <<windows[1].start, windows[1].end>> = <<0, 1000>>
        /\ <<windows[2].start, windows[2].end>> = <<900, 1900>>
        /\ Len(chunks[1].content) = 1000
        /\ Len(chunks[2].content) = 900

C6_Witness == pc = "returned" /\ IsDefault /\ text = Example1800 /\ index = 2

\* the single chunk C7 speaks of
C7_Single ==
    /\ Len(chunks) = 1
    /\ chunks[1] = [index |-> 0, content |-> Strip(text)]

\* C7 as claimed: every nonempty text shorter than chunk_size gives a single
\* chunk (default parameters).
C7_Original ==
    (pc = "returned" /\ IsDefault /\ 0 < Len(text) /\ Len(text) < chunk_size)
        => C7_Single

\* C7 amended: every nonempty text of length at most chunk_size - overlap
\* gives a single chunk, with index 0 and the trimmed text as content.
C7_ShortText ==
    (pc = "returned" /\ IsDefault /\ 0 < Len(text) /\ Len(text) <= Step)
        => C7_Single

C7_Witness ==
    /\ pc = "returned" /\ IsDefault
    /\ Len(text) = Step
    /\ Len(chunks) = 1 /\ chunks[1].content # text

\* C10: with the default parameters every window after the first starts
\* overlap characters before the unclipped end of the previous window, and
\* its first overlap characters (all of it when shorter) are the last
\* characters of the previous untrimmed window.
C10_Overlap ==
    IsDefault =>
        \A i \in 2..Len(windows) :
            LET prev == windows[i - 1]
                cur == windows[i]
                k == Min(overlap, Len(cur.slice))
            IN  /\ cur.start = prev.end - overlap
                /\ cur.slice = Substring(text, cur.start, cur.end)
                /\ prev.slice = Substring(text, prev.start, prev.end)
                /\ k <= Len(prev.slice)
                /\ SubSeq(cur.slice, 1, k) = Suffix(prev.slice, k)

C10_Witness ==
    /\ IsDefault /\ pc = "returned"
    /\ Len(windows) >= 3
    /\ Len(windows[1].slice) = chunk_size
    /\ Len(windows[3].slice) < overlap
    /\ windows[3].slice # Rep("a", Len(windows[3].slice))

----------------------------------------------------------------------------
(* Properties of extract_text and of the entry point *)

C8_Supported(m) ==
    \/ m = "application/pdf"
    \/ m = "application/vnd.openxmlformats-officedocument.wordprocessingml.document"
    \/ m = "application/msword"
    \/ (Len(m) >= 5 /\ SubSeq(m, 1, 5) = "text/")

\* the entry point of the first branch that matches m
C8_Branch(m) ==
    IF m = "application/pdf" THEN "pdfplumber.open"
    ELSE IF Len(m) >= 5 /\ SubSeq(m, 1, 5) = "text/" THEN "open"
    ELSE "docx2txt.process"

ExtractRan == pc \notin {"main", "extract"} /\ Len(argv) >= 3

\* C8: for a MIME type that is not the PDF type, not a Word type and does not
\* start with "text/", extract_text raises an error whose message contains the
\* MIME type, returns no text and calls neither the filesystem nor a parsing
\* library; for a MIME type that matches, exactly the first matching branch
\* runs.
C8_Dispatch ==
    ExtractRan =>
        IF C8_Supported(mime_type)
        THEN calls = <<C8_Branch(mime_type)>>
        ELSE /\ pc = "failed"
             /\ error # NoError
             /\ IsSubstringOf(mime_type, error)
             /\ raw_text = None
             /\ calls = <<>>
             /\ stdout = <<>>

C8_Witness ==
    /\ pc = "failed"
    /\ mime_type = "application/text/plain"
    /\ error = "Unsupported file type: application/text/plain"
    /\ fs.exists /\ fs.well_formed
    /\ calls = <<>>

C9_State ==
    /\ Len(stdout) <= 1
    /\ stdout # <<>> =>
          /\ pc = "done"
          /\ raw_text.some
          /\ text = raw_text.val
          /\ start >= Len(text)
          /\ Len(chunks) = CeilDiv(Len(text), DefaultChunkSize - DefaultOverlap)
          /\ stdout[1] = JsonDumps(raw_text.val, chunks) \o "\n"
    /\ pc \in {"chunk", "loop", "returned", "done"} =>
          raw_text.some /\ error = NoError
    /\ pc \in {"main", "extract", "chunk"} => (chunks = <<>> /\ index = 0)
    /\ error # NoError =>
          /\ pc = "failed"
          /\ stdout = <<>>
          /\ ~raw_text.some
          /\ chunks = <<>> /\ index = 0 /\ windows = <<>>
    /\ pc = "failed" => error # NoError

C9_Step ==
    /\ pc # "failed"
    /\ pc # "done"
    /\ stdout' # stdout => (pc = "returned" /\ pc' = "done")
    /\ pc' = "loop" /\ pc # "loop" => (pc = "chunk" /\ raw_text.some)
    /\ raw_text' # raw_text => (pc = "extract" /\ stdout = <<>> /\ chunks = <<>>)

\* C9: every run goes extract, chunk, print: the JSON object is written at
\* most once, only after extraction and chunking have completed, with text
\* the untrimmed extracted text that was chunked; a failure is not caught or
\* retried: the run stays failed, chunking does not start and nothing is
\* written to standard output.
C9_Order == []C9_State /\ [][C9_Step]_vars

C9_Witness ==
    /\ pc = "done"
    /\ raw_text = Some(" ab \n")
    /\ stdout = <<"{\"text\": \" ab \\n\", \"chunks\": [{\"index\": 0, \"content\": \"ab\"}]}\n">>

====
